---- MODULE Spec2Model ----
(***************************************************************************)
(* Model of the Stocks_TSA estimators (src/src/modeling/train_Bayes.py)    *)
(* and of the data layer they call (src/src/dataset.py).                   *)
(*                                                                         *)
(* A price frame is a sequence of rows [Date, Close] with strictly         *)
(* increasing dates; dates are whole days (daily bars, one time zone), so  *)
(* pd.Timedelta(days=1) is 1.  Thresholds are in percent (threshold 0.09   *)
(* is 9), and a return is kept as the exact fraction num/den, so that      *)
(* "return > threshold" is num * 100 > threshold * den.  A probability is  *)
(* the fraction num/den of a boolean mean, NaN for the mean of nothing.    *)
(***************************************************************************)
EXTENDS Integers, Sequences, FiniteSets, TLC

VARIABLES provider, nasdaq_file, call, result, performance_prob

vars == <<provider, nasdaq_file, call, result, performance_prob>>

(* ------------------------------ bounds -------------------------------- *)

\* Trading dates are 0..MaxDate.
MaxDate == 3

\* The first close of every generated series.
BasePrice == 10

\* The ticker file's Symbol column has at most MaxRows rows.
MaxRows == 4

Dates == 0..MaxDate

\* A close differs from the previous one by one tick down, nothing, or up.
Ticks == {-1, 0, 1}

Tickers == {"A", "B"}

\* Thresholds (percent) the callers pass.
Thresholds == {-5, 0, 9, 11}

(* --------------------------- price frames ----------------------------- *)

Row(d, c) == [Date |-> d, Close |-> c]

RECURSIVE SeriesOfLen(_)
SeriesOfLen(n) ==
    IF n = 1
    THEN {<<Row(d, BasePrice)>> : d \in Dates}
    ELSE UNION {{Append(s, Row(d, s[n - 1].Close + k)) :
                    d \in {x \in Dates : x > s[n - 1].Date}, k \in Ticks} :
                s \in SeriesOfLen(n - 1)}

PriceSeries == UNION {SeriesOfLen(n) : n \in 1..(MaxDate + 1)}

\* The worked example of the specification (section 8), dates d0..d3 = 0..3.
ExampleA == <<Row(0, 100), Row(1, 102), Row(2, 101), Row(3, 105)>>
ExampleB == <<Row(0, 50), Row(1, 49), Row(2, 51), Row(3, 52)>>

\* What the data provider holds for a ticker: a price history, or none
\* (yf.Ticker(ticker).history raises).
Available(rows) == [ok |-> TRUE, rows |-> rows]
Unavailable == [ok |-> FALSE, rows |-> <<>>]

(* ------------------------------ results ------------------------------- *)

Pending == [kind |-> "pending", num |-> 0, den |-> 0, exc |-> "", items |-> <<>>]
NaN == [kind |-> "nan", num |-> 0, den |-> 0, exc |-> "", items |-> <<>>]
Value(n, d) == [kind |-> "value", num |-> n, den |-> d, exc |-> "", items |-> <<>>]
Raise(e) == [kind |-> "raise", num |-> 0, den |-> 0, exc |-> e, items |-> <<>>]
NoneResult == [kind |-> "none", num |-> 0, den |-> 0, exc |-> "", items |-> <<>>]
ListResult(l) == [kind |-> "list", num |-> 0, den |-> 0, exc |-> "", items |-> l]

(* ------------------------- dataset.py: prices ------------------------- *)

ValidPriceTypes == {"All", "Open", "Close", "High", "Low"}

AllColumns == {"Open", "High", "Low", "Close", "Volume", "Dividends", "Stock Splits"}

NoneFrame == [isNone |-> TRUE, columns |-> {}, rows |-> <<>>]
Frame(cols, rows) == [isNone |-> FALSE, columns |-> cols, rows |-> rows]

\* get_price_all_time: either handler prints and returns None.
get_price_all_time(ticker, price_type) ==
    IF ~provider[ticker].ok THEN NoneFrame
    ELSE IF price_type \notin ValidPriceTypes THEN NoneFrame
    ELSE IF price_type = "All" THEN Frame(AllColumns, provider[ticker].rows)
    ELSE Frame({price_type}, provider[ticker].rows)

(* ----------------------- pandas helpers in use ------------------------ *)

NaNReturn == [nan |-> TRUE, num |-> 0, den |-> 1]

\* Series.pct_change(): NaN at the first row, close[i]/close[i-1] - 1 after it.
pct_change(rows) ==
    [i \in 1..Len(rows) |->
        IF i = 1 THEN NaNReturn
        ELSE [nan |-> FALSE, num |-> rows[i].Close - rows[i - 1].Close,
              den |-> rows[i - 1].Close]]

\* Variants of the comparison: ">=" for ">", "<" for ">", and "not (ret <=
\* threshold)", which is True on NaN.
GreaterThan_OrEqual(ret, threshold) ==
    IF ret.nan THEN FALSE ELSE ret.num * 100 >= threshold * ret.den

GreaterThan_Flipped(ret, threshold) ==
    IF ret.nan THEN FALSE ELSE ret.num * 100 < threshold * ret.den

GreaterThan_NotLessEqual(ret, threshold) ==
    IF ret.nan THEN TRUE ELSE ~(ret.num * 100 <= threshold * ret.den)

\* "ret > threshold", threshold in percent; a comparison with NaN is False.
GreaterThan(ret, threshold) ==
    IF ret.nan THEN FALSE ELSE ret.num * 100 > threshold * ret.den

Performing(rows, threshold) ==
    [i \in 1..Len(rows) |-> GreaterThan(pct_change(rows)[i], threshold)]

\* Variant of the label slice: the upper end excluded, as in a Python slice.
LocRange_HalfOpen(rows, lo, hi) ==
    SelectSeq(rows, LAMBDA r : r.Date >= lo /\ r.Date < hi)

\* df.loc[lo:] and df.loc[lo:hi] on a sorted date index: both ends inclusive.
LocFrom(rows, lo) == SelectSeq(rows, LAMBDA r : r.Date >= lo)
LocRange(rows, lo, hi) == SelectSeq(rows, LAMBDA r : r.Date >= lo /\ r.Date <= hi)

Max(a, b) == IF b > a THEN b ELSE a
Min(a, b) == IF b < a THEN b ELSE a

Count(S) == Cardinality(S)

\* Variant of the mean: 0 for no rows.
MeanBool_ZeroWhenEmpty(flags, positions) ==
    IF positions = {} THEN Value(0, 1)
    ELSE Value(Count({i \in positions : flags[i]}), Count(positions))

\* Series.mean() of booleans: NaN for no rows.
MeanBool(flags, positions) ==
    IF positions = {} THEN NaN
    ELSE Value(Count({i \in positions : flags[i]}), Count(positions))

(* ------------------- train_Bayes.py: p_conditional -------------------- *)

start_date(rowsA, rowsB) == Max(rowsA[1].Date, rowsB[1].Date)
last_date(rowsA, rowsB) == Min(rowsA[Len(rowsA)].Date, rowsB[Len(rowsB)].Date)

\* Variant of A's window: no one-day lag.
WindowA_NoLag(rowsA, rowsB) == LocFrom(rowsA, start_date(rowsA, rowsB))

\* price_data_A.loc[start_date + pd.Timedelta(days=1) :]
WindowA(rowsA, rowsB) == LocFrom(rowsA, start_date(rowsA, rowsB) + 1)

\* price_data_B.loc[start_date : last_date - pd.Timedelta(days=1)]
WindowB(rowsA, rowsB) ==
    LocRange(rowsB, start_date(rowsA, rowsB), last_date(rowsA, rowsB) - 1)

PerformingA(winA, threshold) == Performing(winA, threshold)
PerformingB(winB) == Performing(winB, 0)

\* price_data_A[price_data_B["Performing"]] after both reset_index calls: the
\* boolean key is reindexed to A's positions 1..Len(winA); a position of A the
\* key lacks makes pandas raise IndexingError, positions past A's are dropped.
Unalignable(winA, winB) == Len(winB) < Len(winA)
A_when_B_performs(winA, winB) == {i \in 1..Len(winA) : PerformingB(winB)[i]}

ConditionalOnRows(rowsA, rowsB, threshold) ==
    LET winA == WindowA(rowsA, rowsB)
        winB == WindowB(rowsA, rowsB)
    IN  IF Unalignable(winA, winB) THEN Raise("IndexingError")
        ELSE MeanBool(PerformingA(winA, threshold), A_when_B_performs(winA, winB))

p_conditional(tickerA, tickerB, threshold) ==
    LET price_data_A == get_price_all_time(tickerA, "Close")
        price_data_B == get_price_all_time(tickerB, "Close")
    IN  IF price_data_A.isNone \/ price_data_B.isNone THEN Raise("AttributeError")
        ELSE ConditionalOnRows(price_data_A.rows, price_data_B.rows, threshold)

(* ------------------ train_Bayes.py: other estimators ------------------ *)

\* p_stock_performing: None["Close"] is a TypeError, a frame without the Close
\* column a KeyError; else the mean of "Daily_Return > 0" over iloc[1:].
p_stock_performing(ticker, price_type) ==
    LET price_data == get_price_all_time(ticker, price_type)
    IN  IF price_data.isNone THEN Raise("TypeError")
        ELSE IF "Close" \notin price_data.columns THEN Raise("KeyError")
        ELSE MeanBool(Performing(price_data.rows, 0), 2..Len(price_data.rows))

\* bayes_theorem: the three estimates in order, the first exception propagates;
\* prob_B_given_A is computed on numpy floats (no ZeroDivisionError) and dropped.
bayes_theorem(tickerA, tickerB) ==
    LET prob_A == p_stock_performing(tickerA, "Close")
        prob_B == p_stock_performing(tickerB, "Close")
        prob_A_given_B == p_conditional(tickerA, tickerB, 0)
    IN  IF prob_A.kind = "raise" THEN prob_A
        ELSE IF prob_B.kind = "raise" THEN prob_B
        ELSE prob_A_given_B

\* list(np.arange(0, 0.06, 0.01)), in percent.
DefaultThresholdList == <<0, 1, 2, 3, 4, 5>>

ThresholdLists == {DefaultThresholdList, <<-5, 0, 9, 11>>, <<9, 0>>}

\* The loop of get_conditional_performance_graph: one p_conditional per
\* threshold, in order; the first exception ends the loop.
SweepAll(tickerA, tickerB, threshold_list) ==
    [i \in 1..Len(threshold_list) |-> p_conditional(tickerA, tickerB, threshold_list[i])]

Raising(probs) == {i \in 1..Len(probs) : probs[i].kind = "raise"}

FirstRaising(probs) == CHOOSE i \in Raising(probs) : \A j \in Raising(probs) : i <= j

SweepCollected(tickerA, tickerB, threshold_list) ==
    LET probs == SweepAll(tickerA, tickerB, threshold_list)
    IN  IF Raising(probs) = {} THEN probs
        ELSE SubSeq(probs, 1, FirstRaising(probs) - 1)

get_conditional_performance_graph(tickerA, tickerB, threshold_list) ==
    LET probs == SweepAll(tickerA, tickerB, threshold_list)
    IN  IF Raising(probs) = {} THEN NoneResult
        ELSE probs[FirstRaising(probs)]

(* --------------------- dataset.py: ticker universe -------------------- *)

\* A missing value of the Symbol column.
NA == "<NA>"

SymbolValues == {"AAPL", "MSFT", NA}

RECURSIVE SeqsUpTo(_, _)
SeqsUpTo(S, n) ==
    IF n = 0 THEN {<<>>}
    ELSE SeqsUpTo(S, n - 1) \cup
         {Append(s, x) : s \in {t \in SeqsUpTo(S, n - 1) : Len(t) = n - 1}, x \in S}

\* The file at file_path: absent; present when os.path.exists looks and gone
\* when read_csv opens it; present but not readable as CSV; or a table, with
\* or without a Symbol column.
FileStates ==
    {[kind |-> k, symbols |-> <<>>] : k \in {"missing", "vanishing", "unreadable", "no_symbol"}}
    \cup {[kind |-> "table", symbols |-> s] : s \in SeqsUpTo(SymbolValues, MaxRows)}

\* Series.dropna().unique(): the non-missing values, each once, in order of
\* first appearance.
RECURSIVE dropna_unique(_)
dropna_unique(col) ==
    IF col = <<>> THEN <<>>
    ELSE LET n == Len(col)
             head == dropna_unique(SubSeq(col, 1, n - 1))
         IN  IF col[n] = NA \/ \E i \in 1..Len(head) : head[i] = col[n]
             THEN head
             ELSE Append(head, col[n])

\* get_Nasdaq_ticker_list: the last handler (except Exception) prints and
\* falls off the end of the function, which returns None.
get_Nasdaq_ticker_list(file) ==
    IF file.kind = "missing" THEN ListResult(<<>>)
    ELSE IF file.kind = "vanishing" THEN ListResult(<<>>)
    ELSE IF file.kind = "unreadable" THEN NoneResult
    ELSE IF file.kind = "no_symbol" THEN ListResult(<<>>)
    ELSE ListResult(dropna_unique(file.symbols))

(* --------------------------- state machine ---------------------------- *)

Idle == [op |-> "idle", tickerA |-> "", tickerB |-> "", threshold |-> 0,
         price_type |-> "", threshold_list |-> <<>>]

ProviderStates == {Unavailable} \cup {Available(s) : s \in PriceSeries}

ExampleProvider ==
    [t \in Tickers |-> IF t = "A" THEN Available(ExampleA) ELSE Available(ExampleB)]

NoFile == [kind |-> "missing", symbols |-> <<>>]

\* Price types callers pass to p_stock_performing ("Volume" is not valid).
PriceTypes == {"Close", "All", "Open", "Volume"}

\* Ticker pairs callers pass: two tickers, or one ticker against itself (the
\* other two pairs are these with the provider's entries swapped).
TickerPairs == {<<"A", "B">>, <<"A", "A">>}

Init ==
    /\ \/ provider \in [Tickers -> ProviderStates]
       \/ provider = ExampleProvider
    /\ nasdaq_file = NoFile
    /\ call = Idle
    /\ result = Pending
    /\ performance_prob = <<>>

CallPConditional ==
    /\ call.op = "idle"
    /\ \E pair \in TickerPairs, th \in Thresholds :
        /\ call' = [Idle EXCEPT !.op = "p_conditional", !.tickerA = pair[1],
                                !.tickerB = pair[2], !.threshold = th]
        /\ result' = p_conditional(pair[1], pair[2], th)
    /\ UNCHANGED <<provider, nasdaq_file, performance_prob>>

CallPStockPerforming ==
    /\ call.op = "idle"
    /\ \E t \in Tickers, pt \in PriceTypes :
        /\ call' = [Idle EXCEPT !.op = "p_stock_performing", !.tickerA = t,
                                !.price_type = pt]
        /\ result' = p_stock_performing(t, pt)
    /\ UNCHANGED <<provider, nasdaq_file, performance_prob>>

CallBayesTheorem ==
    /\ call.op = "idle"
    /\ \E pair \in TickerPairs :
        /\ call' = [Idle EXCEPT !.op = "bayes_theorem", !.tickerA = pair[1],
                                !.tickerB = pair[2]]
        /\ result' = bayes_theorem(pair[1], pair[2])
    /\ UNCHANGED <<provider, nasdaq_file, performance_prob>>

CallGraph ==
    /\ call.op = "idle"
    /\ \E pair \in TickerPairs, tl \in ThresholdLists :
        /\ call' = [Idle EXCEPT !.op = "get_conditional_performance_graph",
                                !.tickerA = pair[1], !.tickerB = pair[2],
                                !.threshold_list = tl]
        /\ performance_prob' = SweepCollected(pair[1], pair[2], tl)
        /\ result' = get_conditional_performance_graph(pair[1], pair[2], tl)
    /\ UNCHANGED <<provider, nasdaq_file>>

Next == CallPConditional \/ CallPStockPerforming \/ CallBayesTheorem \/ CallGraph

Spec == Init /\ [][Next]_vars

\* The ticker-universe reader on its own: it reads no prices.
InitTickers ==
    /\ provider = ExampleProvider
    /\ nasdaq_file \in FileStates
    /\ call = Idle
    /\ result = Pending
    /\ performance_prob = <<>>

CallGetNasdaqTickerList ==
    /\ call.op = "idle"
    /\ call' = [Idle EXCEPT !.op = "get_Nasdaq_ticker_list"]
    /\ result' = get_Nasdaq_ticker_list(nasdaq_file)
    /\ UNCHANGED <<provider, nasdaq_file, performance_prob>>

NextTickers == CallGetNasdaqTickerList

SpecTickers == InitTickers /\ [][NextTickers]_vars

(* ------------------------------ claims -------------------------------- *)

RowsA == provider[call.tickerA].rows
RowsB == provider[call.tickerB].rows

\* A finished p_conditional call that got both price frames.
ConditionalDone ==
    /\ call.op = "p_conditional"
    /\ provider[call.tickerA].ok
    /\ provider[call.tickerB].ok

SameDates(rowsA, rowsB) ==
    /\ Len(rowsA) = Len(rowsB)
    /\ \A i \in 1..Len(rowsA) : rowsA[i].Date = rowsB[i].Date

\* With rows 1..k+1 holding the dates d0..dk: the indices i in 1..k-1 with
\* price_B[d_i] > price_B[d_(i-1)].
B_up_at(rowsB) ==
    {i \in 1..(Len(rowsB) - 2) : rowsB[i + 1].Close > rowsB[i].Close}

\* price_A[d_(i+1)] / price_A[d_i] - 1 > threshold.
A_next_exceeds(rowsA, i, threshold) ==
    (rowsA[i + 2].Close - rowsA[i + 1].Close) * 100 > threshold * rowsA[i + 1].Close

LaggedFraction(rowsA, rowsB, threshold) ==
    IF B_up_at(rowsB) = {} THEN NaN
    ELSE Value(Count({i \in B_up_at(rowsB) : A_next_exceeds(rowsA, i, threshold)}),
               Count(B_up_at(rowsB)))

ExampleCall ==
    /\ provider = ExampleProvider
    /\ call.op = "p_conditional"
    /\ call.tickerA = "A"
    /\ call.tickerB = "B"
    /\ call.threshold = 0

\* C2 as stated: on the worked example p_conditional returns 0.5.
C2_ExampleIsHalf ==
    ExampleCall => (result.kind = "value" /\ 2 * result.num = result.den)

\* C2, amended: on the worked example B's window is d0..d2 with performance
\* [false, false, true], A's window is d1..d3 with performance [false, false,
\* true], and p_conditional returns 1.0, the mean of A's performance at the
\* one position where B is true.
C2_ExampleIsOne ==
    ExampleCall =>
        /\ [i \in 1..Len(WindowB(RowsA, RowsB)) |-> WindowB(RowsA, RowsB)[i].Date]
              = <<0, 1, 2>>
        /\ [i \in 1..Len(WindowA(RowsA, RowsB)) |-> WindowA(RowsA, RowsB)[i].Date]
              = <<1, 2, 3>>
        /\ PerformingB(WindowB(RowsA, RowsB)) = <<FALSE, FALSE, TRUE>>
        /\ PerformingA(WindowA(RowsA, RowsB), 0) = <<FALSE, FALSE, TRUE>>
        /\ result = Value(1, 1)

C2_Witness == ExampleCall /\ result.kind = "value"

\* The alignment window [start_date, last_date] holds no date, or one.
EmptyEvaluationWindow == last_date(RowsA, RowsB) <= start_date(RowsA, RowsB)

\* C3 as stated: when A's dates all precede B's, B's all precede A's, or the
\* two ranges share a single date, p_conditional returns NaN and raises nothing.
C3_EmptyWindowIsNaN ==
    (ConditionalDone /\ EmptyEvaluationWindow) => result.kind = "nan"

\* C4 as stated: on overlapping series no row of A dated after windowEnd =
\* min(maxDate_A, maxDate_B) is evaluated, and p_conditional returns a value
\* (a probability or NaN), also when A has rows after B's last date.
C4_WindowBoundedAbove ==
    (ConditionalDone /\ start_date(RowsA, RowsB) <= last_date(RowsA, RowsB)) =>
        /\ result.kind \in {"value", "nan"}
        /\ \A i \in 1..Len(WindowA(RowsA, RowsB)) :
              WindowA(RowsA, RowsB)[i].Date <= last_date(RowsA, RowsB)

ConditionalReturned == ConditionalDone /\ result.kind \in {"value", "nan"}

IsProbability(r) == r.kind = "value" /\ r.den > 0 /\ 0 <= r.num /\ r.num <= r.den

B_performs_somewhere ==
    \E i \in 1..Len(WindowB(RowsA, RowsB)) : PerformingB(WindowB(RowsA, RowsB))[i]

\* C5 as stated: whenever p_conditional returns, the result is in [0, 1] if
\* some position of B's conditioning window is performing, and NaN otherwise.
C5_DefinedIffBPerforms ==
    ConditionalReturned =>
        IF B_performs_somewhere THEN IsProbability(result) ELSE result.kind = "nan"

\* Row i of B's window closed above row i - 1.
rowsBUp(i) ==
    /\ i >= 2
    /\ WindowB(RowsA, RowsB)[i].Close > WindowB(RowsA, RowsB)[i - 1].Close

\* C5, amended: whenever p_conditional returns, the result is in [0, 1] if B
\* is performing at some position that A's window also has (the selected rows
\* of A are not empty), and NaN otherwise.
C5_DefinedIffSelected ==
    ConditionalReturned =>
        IF \E i \in 1..Len(WindowA(RowsA, RowsB)) :
              i <= Len(WindowB(RowsA, RowsB)) /\ rowsBUp(i)
        THEN IsProbability(result)
        ELSE result.kind = "nan"

\* B performs, but only at positions past the end of A's window.
C5_Witness ==
    /\ ConditionalReturned
    /\ B_performs_somewhere
    /\ result.kind = "nan"

\* Two results are the same probability: both NaN, or equal fractions.
SameProbability(r1, r2) ==
    \/ r1.kind = "nan" /\ r2.kind = "nan"
    \/ /\ r1.kind = "value"
       /\ r2.kind = "value"
       /\ r1.num * r2.den = r2.num * r1.den

\* What p_stock_performing computes, on given rows: the fraction of rows,
\* the first excluded, whose return is > 0.
MarginalOn(rows) ==
    IF Len(rows) <= 1 THEN NaN
    ELSE Value(Count({i \in 2..Len(rows) : rows[i].Close > rows[i - 1].Close}),
               Len(rows) - 1)

SelfConditioningDone ==
    /\ ConditionalDone
    /\ call.tickerA = call.tickerB
    /\ call.threshold = 0
    /\ Len(RowsA) >= 3

\* C6 as stated: p_conditional(A, A, 0) is the marginal probability of A
\* performing, computed on the lagged window of A.
C6_SelfIsMarginal ==
    SelfConditioningDone =>
        \/ SameProbability(result, MarginalOn(WindowA(RowsA, RowsA)))
        \/ SameProbability(result, MarginalOn(WindowB(RowsA, RowsA)))

\* Rows of A, the first and the last excluded, that closed above the row
\* before them.
UpDays(rows) == {i \in 2..(Len(rows) - 1) : rows[i].Close > rows[i - 1].Close}

\* C6, amended: for A with at least 3 observations p_conditional(A, A, 0) is,
\* among the days other than the first and the last whose return is > 0, the
\* fraction whose next day's return is > 0 as well (NaN when there is no such
\* day).
C6_SelfIsUpAfterUp ==
    SelfConditioningDone =>
        result = IF UpDays(RowsA) = {} THEN NaN
                 ELSE Value(Count({i \in UpDays(RowsA) :
                                      RowsA[i + 1].Close > RowsA[i].Close}),
                            Count(UpDays(RowsA)))

\* An up day followed by a down day and then an up day: no up day follows an
\* up day, while half of the lagged window's returns are up.
C6_Witness ==
    /\ SelfConditioningDone
    /\ Len(RowsA) >= 4
    /\ result = Value(0, 1)
    /\ MarginalOn(WindowA(RowsA, RowsA)) = Value(1, 2)

EstimatorOps ==
    {"p_stock_performing", "p_conditional", "bayes_theorem",
     "get_conditional_performance_graph"}

\* get_price_all_time reported an error and returned None for a ticker of the
\* finished call.
RetrievalFailed ==
    \/ ~provider[call.tickerA].ok
    \/ call.op # "p_stock_performing" /\ ~provider[call.tickerB].ok
    \/ call.op = "p_stock_performing" /\ call.price_type \notin ValidPriceTypes

\* C7 as stated: when price retrieval fails, no estimator lets an exception
\* reach its caller.
C7_SoftFailure ==
    (call.op \in EstimatorOps /\ RetrievalFailed) => result.kind # "raise"

\* C8 as stated: get_Nasdaq_ticker_list always returns a list; the distinct
\* non-missing Symbol values of a readable table with that column, the empty
\* list for a missing file, a missing column or any other error.
C8_AlwaysAList ==
    call.op = "get_Nasdaq_ticker_list" =>
        /\ result.kind = "list"
        /\ nasdaq_file.kind = "table" =>
              /\ \A i \in 1..Len(nasdaq_file.symbols) :
                    nasdaq_file.symbols[i] # NA =>
                        \E j \in 1..Len(result.items) :
                            result.items[j] = nasdaq_file.symbols[i]
              /\ \A j \in 1..Len(result.items) :
                    /\ result.items[j] # NA
                    /\ \E i \in 1..Len(nasdaq_file.symbols) :
                          nasdaq_file.symbols[i] = result.items[j]
                    /\ \A k \in 1..Len(result.items) :
                          result.items[k] = result.items[j] => k = j
        /\ nasdaq_file.kind # "table" => result.items = <<>>

\* Positions 2.. of A's window at which B's window has a row that closed
\* above the row before it.
SelectedPastFirst ==
    {i \in 2..Len(WindowA(RowsA, RowsB)) :
        /\ i <= Len(WindowB(RowsA, RowsB))
        /\ WindowB(RowsA, RowsB)[i].Close > WindowB(RowsA, RowsB)[i - 1].Close}

A_return_exceeds(i, threshold) ==
    (WindowA(RowsA, RowsB)[i].Close - WindowA(RowsA, RowsB)[i - 1].Close) * 100
        > threshold * WindowA(RowsA, RowsB)[i - 1].Close

\* C9: the first row of each window is in neither the numerator nor the
\* denominator of what p_conditional returns, for every threshold, negative
\* ones included: the result is the fraction counted over positions 2.. only.
C9_FirstRowNeverCounts ==
    ConditionalReturned =>
        /\ 1 \notin A_when_B_performs(WindowA(RowsA, RowsB), WindowB(RowsA, RowsB))
        /\ result =
              IF SelectedPastFirst = {} THEN NaN
              ELSE Value(Count({i \in SelectedPastFirst :
                                   A_return_exceeds(i, call.threshold)}),
                         Count(SelectedPastFirst))

C9_Witness ==
    /\ ConditionalReturned
    /\ call.threshold < 0
    /\ call.tickerA # call.tickerB
    /\ Len(WindowA(RowsA, RowsB)) >= 2
    /\ result.kind = "value"
    /\ result.num < result.den

Ascending(list) == \A i \in 1..(Len(list) - 1) : list[i] <= list[i + 1]

AtLeast(r1, r2) == r1.num * r2.den >= r2.num * r1.den

\* C10: with the series fixed, whether p_conditional's result is defined does
\* not depend on the threshold, and the result does not grow with the
\* threshold; so what get_conditional_performance_graph collects over an
\* ascending threshold_list is non-increasing.
C10_ThresholdMonotone ==
    /\ (call.op = "get_conditional_performance_graph" /\ result.kind = "none") =>
          /\ Len(performance_prob) = Len(call.threshold_list)
          /\ \A i \in 1..Len(performance_prob), j \in 1..Len(performance_prob) :
                /\ performance_prob[i].kind = performance_prob[j].kind
                /\ performance_prob[i].kind \in {"value", "nan"}
                /\ (/\ call.threshold_list[i] <= call.threshold_list[j]
                    /\ performance_prob[i].kind = "value")
                      => AtLeast(performance_prob[i], performance_prob[j])
    /\ (call.op = "get_conditional_performance_graph" /\ result.kind = "raise") =>
          /\ performance_prob = <<>>
          /\ \A t \in Thresholds :
                p_conditional(call.tickerA, call.tickerB, t).kind = "raise"
    /\ call.op = "p_conditional" =>
          \A t \in Thresholds :
              /\ p_conditional(call.tickerA, call.tickerB, t).kind = result.kind
              /\ (t >= call.threshold /\ result.kind = "value")
                    => AtLeast(result, p_conditional(call.tickerA, call.tickerB, t))

\* An ascending sweep whose probabilities do fall.
C10_Witness ==
    /\ call.op = "get_conditional_performance_graph"
    /\ call.tickerA # call.tickerB
    /\ Ascending(call.threshold_list)
    /\ Len(performance_prob) = 4
    /\ performance_prob[1].kind = "value"
    /\ ~AtLeast(performance_prob[2], performance_prob[1])
    /\ ~AtLeast(performance_prob[4], performance_prob[3])

====
